---- MODULE Spec2Model ----
(***************************************************************************)
(* A model of the FSDS review / approval e-mail scripts                    *)
(* (write_review_email.py, write_approved_email.py).                       *)
(*                                                                         *)
(* Text is modelled as a sequence of one-character strings, so that        *)
(* escaping, substitution and formatting are computed character by         *)
(* character the way the Python code computes them.                        *)
(***************************************************************************)
EXTENDS Integers, Sequences, FiniteSets, TLC

VARIABLES
    today,            \* datetime.now(), as a day number (0 = Thursday 2026-01-01)
    current_date,     \* calculate_review_deadline: the date the loop stopped at
    deadline,         \* calculate_review_deadline: the returned string
    dpc,              \* position of the deadline calculation
    email_text,       \* generate_review_email_html: the filled template text
    html_content,     \* generate_review_email_html: the text being converted
    full_html,        \* generate_review_email_html: the returned document
    rpc,              \* position inside the conversion steps
    prog,             \* the script that runs: "review" or "approved"
    pc,               \* position inside main()
    fsds_number,      \* args.fsds_number
    open_flag,        \* args.open
    template_files,   \* the template files of the working directory
    sidecar,          \* the file FSDS-<fsds_number>-info.json
    html_file,        \* the file FSDS-<fsds_number>-review-email.html
    issue_key,        \* get_jira_issue: issue_key
    json_file,        \* the sidecar file name main() built (info_file / json_file)
    output_file,      \* the HTML file name main() built
    info,             \* review run: the info dict
    ticket_info,      \* approved run: the dict json.load returned
    approved_email,   \* approved run: the rendered template
    stdout,           \* the lines printed so far
    exit_status,      \* the exit status of the process, once it has ended
    raised,           \* the failure that ended the run, if any
    effects           \* the files written and programs launched, in order

deadlineVars == << today, current_date, deadline, dpc >>
renderVars == << email_text, html_content, full_html, rpc >>
cliVars ==
    << prog, pc, fsds_number, open_flag, template_files, sidecar, html_file, issue_key,
       json_file, output_file, info, ticket_info, approved_email, stdout, exit_status,
       raised, effects >>

vars == << deadlineVars, renderVars, cliVars >>

\* the value of a text variable that has not been assigned
NoText == << "(unset)" >>

\* the value of a date or exit status that has not been assigned
NoInt == 0 - 1

(***************************************************************************)
(* Strings (str methods used by the scripts)                               *)
(***************************************************************************)

\* s[i:].startswith(p)
StartsAt(s, i, p) ==
    /\ i + Len(p) - 1 <= Len(s)
    /\ \A k \in 1..Len(p) : s[i + k - 1] = p[k]

StartsWith(s, p) == StartsAt(s, 1, p)

\* p in s
Contains(s, p) == \E i \in 1..Len(s) : StartsAt(s, i, p)

\* the positions at which p occurs in s (overlapping occurrences included)
Occurrences(s, p) == { i \in 1..Len(s) : StartsAt(s, i, p) }

Least(S) == CHOOSE x \in S : \A y \in S : x <= y

RECURSIVE ReplaceFrom(_, _, _, _)
\* s[i:] with every occurrence of old replaced, scanning from the left
ReplaceFrom(s, old, new, i) ==
    LET at == { p \in i..Len(s) : StartsAt(s, p, old) }
    IN  IF at = {} THEN SubSeq(s, i, Len(s))
        ELSE SubSeq(s, i, Least(at) - 1) \o new
                 \o ReplaceFrom(s, old, new, Least(at) + Len(old))

\* str.replace(old, new) for a non-empty old: leftmost, non-overlapping
Replace(s, old, new) == ReplaceFrom(s, old, new, 1)

RECURSIVE Join(_, _)
\* sep.join(parts)
Join(parts, sep) ==
    IF Len(parts) = 0 THEN << >>
    ELSE IF Len(parts) = 1 THEN parts[1]
    ELSE parts[1] \o sep \o Join(Tail(parts), sep)

RECURSIVE Concat(_)
\* "".join(parts)
Concat(parts) == IF Len(parts) = 0 THEN << >> ELSE parts[1] \o Concat(Tail(parts))

Digit(n) == << "0", "1", "2", "3", "4", "5", "6", "7", "8", "9" >>[n + 1]

RECURSIVE NatToStr(_)
NatToStr(n) == IF n < 10 THEN << Digit(n) >> ELSE NatToStr(n \div 10) \o << Digit(n % 10) >>

\* str(n) for an int
IntToStr(n) == IF n < 0 THEN << "-" >> \o NatToStr(0 - n) ELSE NatToStr(n)

(***************************************************************************)
(* Deadline calculator: calculate_review_deadline                          *)
(***************************************************************************)

\* the largest day number datetime.now() is drawn from
MaxDay == 59

\* the number of weekdays the loop counts
ReviewWeekdays == 3

\* date.weekday(): Monday = 0 ... Sunday = 6; day 0 is a Thursday
Weekday(d) == (d + 3) % 7

\* weekday() < 5
IsWeekday(d) == Weekday(d) < 5

DayNames ==
    << <<"M", "o", "n", "d", "a", "y">>,
       <<"T", "u", "e", "s", "d", "a", "y">>,
       <<"W", "e", "d", "n", "e", "s", "d", "a", "y">>,
       <<"T", "h", "u", "r", "s", "d", "a", "y">>,
       <<"F", "r", "i", "d", "a", "y">>,
       <<"S", "a", "t", "u", "r", "d", "a", "y">>,
       <<"S", "u", "n", "d", "a", "y">> >>

MonthNames ==
    << <<"J", "a", "n", "u", "a", "r", "y">>,
       <<"F", "e", "b", "r", "u", "a", "r", "y">>,
       <<"M", "a", "r", "c", "h">>,
       <<"A", "p", "r", "i", "l">>,
       <<"M", "a", "y">>,
       <<"J", "u", "n", "e">>,
       <<"J", "u", "l", "y">>,
       <<"A", "u", "g", "u", "s", "t">>,
       <<"S", "e", "p", "t", "e", "m", "b", "e", "r">>,
       <<"O", "c", "t", "o", "b", "e", "r">>,
       <<"N", "o", "v", "e", "m", "b", "e", "r">>,
       <<"D", "e", "c", "e", "m", "b", "e", "r">> >>

\* the month lengths of 2026
MonthLengths == << 31, 28, 31, 30, 31, 30, 31, 31, 30, 31, 30, 31 >>

RECURSIVE MonthFrom(_, _)
\* the month (1..12) that holds the day-of-year d (0-based), searching from month m
MonthFrom(d, m) ==
    IF m = 12 \/ d < MonthLengths[m] THEN m ELSE MonthFrom(d - MonthLengths[m], m + 1)

RECURSIVE DayFrom(_, _)
\* the day of the month (1-based) of the day-of-year d
DayFrom(d, m) ==
    IF m = 12 \/ d < MonthLengths[m] THEN d + 1 ELSE DayFrom(d - MonthLengths[m], m + 1)

MonthOf(d) == MonthFrom(d, 1)
DayOfMonth(d) == DayFrom(d, 1)

\* strftime("%A %B %d"): full weekday name, full month name, zero-padded day
Strftime(d) ==
    DayNames[Weekday(d) + 1] \o << " " >> \o MonthNames[MonthOf(d)] \o << " " >>
        \o (IF DayOfMonth(d) < 10 THEN << "0" >> ELSE << >>) \o NatToStr(DayOfMonth(d))

\* the mutated loop: Saturday is counted as a weekday (weekday() <= 5)
RECURSIVE AdvanceCountingSaturday(_, _)
AdvanceCountingSaturday(date, added) ==
    IF added < ReviewWeekdays
    THEN AdvanceCountingSaturday(date + 1,
                                 IF Weekday(date + 1) <= 5 THEN added + 1 ELSE added)
    ELSE date

DeadlineDateCountingSaturday(t) == AdvanceCountingSaturday(t, 0)

RECURSIVE Advance(_, _)
\* while weekdays_added < 3: current_date += 1 day; count it if it is a weekday
Advance(date, added) ==
    IF added < ReviewWeekdays
    THEN Advance(date + 1, IF IsWeekday(date + 1) THEN added + 1 ELSE added)
    ELSE date

\* the value of current_date when the loop ends
DeadlineDate(t) == Advance(t, 0)

\* current_date.strftime("%A %B %d").replace(" 0", " ")
FormatDeadline(d) == Replace(Strftime(d), << " ", "0" >>, << " " >>)

calculate_review_deadline(t) == FormatDeadline(DeadlineDate(t))

\* a Python value: a str or an int
PyStr(chars) == [t |-> "str", v |-> chars, n |-> 0]
PyInt(i) == [t |-> "int", v |-> << >>, n |-> i]

\* {}
EmptyDict == [k \in {} |-> PyInt(0)]

\* a file that does not exist
NoFile == [kind |-> "absent", text |-> << >>, obj |-> EmptyDict]

IdleCli ==
    /\ prog = "none"
    /\ pc = "idle"
    /\ fsds_number = 0
    /\ open_flag = FALSE
    /\ template_files = [f \in {"email", "approved"} |-> NoFile]
    /\ sidecar = NoFile
    /\ html_file = NoFile
    /\ issue_key = NoText
    /\ json_file = NoText
    /\ output_file = NoText
    /\ info = EmptyDict
    /\ ticket_info = EmptyDict
    /\ approved_email = NoText
    /\ stdout = << >>
    /\ exit_status = NoInt
    /\ raised = "none"
    /\ effects = << >>

IdleRender ==
    /\ email_text = NoText
    /\ html_content = NoText
    /\ full_html = NoText
    /\ rpc = "idle"

InitDeadline ==
    /\ today \in 0..MaxDay
    /\ current_date = NoInt
    /\ deadline = NoText
    /\ dpc = "start"
    /\ IdleRender
    /\ IdleCli

CallCalculateReviewDeadline ==
    /\ dpc = "start"
    /\ current_date' = DeadlineDate(today)
    /\ deadline' = calculate_review_deadline(today)
    /\ dpc' = "done"
    /\ UNCHANGED << today, renderVars, cliVars >>

NextDeadline == CallCalculateReviewDeadline

SpecDeadline == InitDeadline /\ [][NextDeadline]_vars

\* the Monday-to-Friday days d with a < d <= b
BusinessDaysIn(a, b) == { d \in (a + 1)..b : Weekday(d) \in 0..4 }

\* C1: the deadline is the 3rd Monday-to-Friday day strictly after today: it is
\* never a Saturday or Sunday, exactly 3 business days lie in (today, deadline],
\* a Wednesday gives the following Monday and a Friday the following Wednesday;
\* the returned string names that day.
C1_ThirdBusinessDay ==
    dpc = "done" =>
        /\ current_date > today
        /\ Weekday(current_date) \notin {5, 6}
        /\ Cardinality(BusinessDaysIn(today, current_date)) = 3
        /\ Weekday(today) = 2 => current_date = today + 5 /\ Weekday(current_date) = 0
        /\ Weekday(today) = 4 => current_date = today + 5 /\ Weekday(current_date) = 2
        /\ StartsWith(deadline, DayNames[Weekday(current_date) + 1] \o << " " >>)
        /\ ~StartsWith(deadline, DayNames[6])
        /\ ~StartsWith(deadline, DayNames[7])

\* a Friday start whose deadline falls in the next month on a single-digit day
C1_Witness ==
    /\ dpc = "done"
    /\ Weekday(today) = 4
    /\ deadline = <<"W", "e", "d", "n", "e", "s", "d", "a", "y", " ",
                    "F", "e", "b", "r", "u", "a", "r", "y", " ", "4">>

(***************************************************************************)
(* Markup-to-HTML conversion: the steps of generate_review_email_html      *)
(***************************************************************************)

NL == "\n"

AmpEntity == << "&", "a", "m", "p", ";" >>
LtEntity == << "&", "l", "t", ";" >>
GtEntity == << "&", "g", "t", ";" >>
QuotEntity == << "&", "q", "u", "o", "t", ";" >>
AposEntity == << "&", "#", "x", "2", "7", ";" >>
NbspEntity == << "&", "n", "b", "s", "p", ";" >>
StrongOpen == << "<", "s", "t", "r", "o", "n", "g", ">" >>
StrongClose == << "<", "/", "s", "t", "r", "o", "n", "g", ">" >>
AnchorOpen == << "<", "a", " ", "h", "r", "e", "f", "=", "\"" >>
AnchorMid == << "\"", ">" >>
AnchorClose == << "<", "/", "a", ">" >>
BrTag == << "<", "b", "r", ">" >>
Stars == << "*", "*" >>

\* the mutated escape: the text is escaped a second time
HtmlEscapeTwice(s) ==
    LET once(t) ==
            Replace(Replace(Replace(Replace(Replace(t,
                << "&" >>, AmpEntity), << "<" >>, LtEntity), << ">" >>, GtEntity),
                << "\"" >>, QuotEntity), << "'" >>, AposEntity)
    IN  once(once(s))

\* html.escape(s): & first, then <, >, " and '
HtmlEscape(s) ==
    Replace(Replace(Replace(Replace(Replace(s,
        << "&" >>, AmpEntity), << "<" >>, LtEntity), << ">" >>, GtEntity),
        << "\"" >>, QuotEntity), << "'" >>, AposEntity)

\* s.split('\n'): the pieces between the newlines, one more than there are newlines
SplitLines(s) ==
    LET nl == { i \in 1..Len(s) : s[i] = NL }
        n == Cardinality(nl)
        pos(k) == CHOOSE i \in nl : Cardinality({ j \in nl : j < i }) = k - 1
        first(k) == IF k = 1 THEN 1 ELSE pos(k - 1) + 1
        last(k) == IF k = n + 1 THEN Len(s) ELSE pos(k) - 1
    IN  [k \in 1..(n + 1) |-> SubSeq(s, first(k), last(k))]

RECURSIVE LStripSpaces(_)
\* line.lstrip(' ')
LStripSpaces(line) ==
    IF Len(line) > 0 /\ line[1] = " " THEN LStripSpaces(Tail(line)) ELSE line

RECURSIVE Repeat(_, _)
\* s * n
Repeat(s, n) == IF n <= 0 THEN << >> ELSE s \o Repeat(s, n - 1)

\* the mutated loop body: every space of the line becomes an entity
IndentLineAllSpaces(line) == Replace(line, << " " >>, NbspEntity)

\* the loop body: leading spaces become '&nbsp;', the rest of the line is kept
IndentLine(line) ==
    LET leading_spaces == Len(line) - Len(LStripSpaces(line))
    IN  IF leading_spaces > 0
        THEN Repeat(NbspEntity, leading_spaces) \o LStripSpaces(line)
        ELSE line

\* split on '\n', convert every line, join with '\n'
PreserveIndent(s) ==
    LET lines == SplitLines(s)
    IN  Join([i \in 1..Len(lines) |-> IndentLine(lines[i])], << NL >>)

\* the positions j at which '\*\*(.*?)\*\*' can close a span opened at i
BoldCloses(s, i) ==
    { j \in (i + 2)..(Len(s) - 1) :
        /\ StartsAt(s, j, Stars)
        /\ \A k \in (i + 2)..(j - 1) : s[k] # NL }

\* the mutated substitution: '.' also matches a newline (re.DOTALL)
RECURSIVE BoldFromDotAll(_, _)
BoldFromDotAll(s, i) ==
    LET closes(p) == { j \in (p + 2)..(Len(s) - 1) : StartsAt(s, j, Stars) }
        opens == { p \in i..Len(s) : StartsAt(s, p, Stars) /\ closes(p) # {} }
    IN  IF opens = {} THEN SubSeq(s, i, Len(s))
        ELSE SubSeq(s, i, Least(opens) - 1)
                 \o StrongOpen
                 \o SubSeq(s, Least(opens) + 2, Least(closes(Least(opens))) - 1)
                 \o StrongClose
                 \o BoldFromDotAll(s, Least(closes(Least(opens))) + 2)

BoldSubDotAll(s) == BoldFromDotAll(s, 1)

RECURSIVE BoldFrom(_, _)
\* s[i:] with the matches replaced: the leftmost position the pattern matches at,
\* its shortest match, then the rest after the match
BoldFrom(s, i) ==
    LET opens == { p \in i..Len(s) : StartsAt(s, p, Stars) /\ BoldCloses(s, p) # {} }
    IN  IF opens = {} THEN SubSeq(s, i, Len(s))
        ELSE LET p == Least(opens)
                 j == Least(BoldCloses(s, p))
             IN  SubSeq(s, i, p - 1) \o StrongOpen \o SubSeq(s, p + 2, j - 1)
                     \o StrongClose \o BoldFrom(s, j + 2)

\* re.sub(r'\*\*(.*?)\*\*', r'<strong>\1</strong>', s)
BoldSub(s) == BoldFrom(s, 1)

\* the first position >= i holding the character c, or 0
FirstAt(s, i, c) ==
    LET at == { j \in i..Len(s) : s[j] = c }
    IN  IF at = {} THEN 0 ELSE Least(at)

\* r'\[([^\]]+)\]\(([^)]+)\)' matched at i: << position of ']', position of ')' >>,
\* or << 0, 0 >> when there is no match at i
LinkMatch(s, i) ==
    LET j == FirstAt(s, i + 1, "]")
        k == IF j = 0 THEN 0 ELSE FirstAt(s, j + 2, ")")
    IN  IF /\ i <= Len(s) /\ s[i] = "["
           /\ j >= i + 2
           /\ j + 1 <= Len(s) /\ s[j + 1] = "("
           /\ k >= j + 3
        THEN << j, k >>
        ELSE << 0, 0 >>

RECURSIVE LinkFrom(_, _)
\* s[i:] with the matches replaced, leftmost match first
LinkFrom(s, i) ==
    LET starts == { p \in i..Len(s) : LinkMatch(s, p)[1] # 0 }
    IN  IF starts = {} THEN SubSeq(s, i, Len(s))
        ELSE LET p == Least(starts)
                 m == LinkMatch(s, p)
             IN  SubSeq(s, i, p - 1) \o AnchorOpen \o SubSeq(s, m[1] + 2, m[2] - 1)
                     \o AnchorMid \o SubSeq(s, p + 1, m[1] - 1) \o AnchorClose
                     \o LinkFrom(s, m[2] + 1)

\* re.sub(r'\[([^\]]+)\]\(([^)]+)\)', r'<a href="\2">\1</a>', s)
LinkSub(s) == LinkFrom(s, 1)

\* s.replace('\n', '<br>\n')
LineBreaks(s) == Replace(s, << NL >>, BrTag \o << NL >>)

\* the document shell before {html_content}
ShellHead ==
    <<"<", "!", "D", "O", "C", "T", "Y", "P", "E", " ", "h", "t", "m", "l", ">", "\n", "<",
    "h", "t", "m", "l", ">", "\n", "<", "h", "e", "a", "d", ">", "\n", " ", " ", " ", " ", "<",
    "m", "e", "t", "a", " ", "c", "h", "a", "r", "s", "e", "t", "=", "\"", "u", "t", "f", "-",
    "8", "\"", ">", "\n", " ", " ", " ", " ", "<", "t", "i", "t", "l", "e", ">", "F", "S", "D",
    "S", " ", "R", "e", "v", "i", "e", "w", " ", "R", "e", "q", "u", "e", "s", "t", "<", "/",
    "t", "i", "t", "l", "e", ">", "\n", " ", " ", " ", " ", "<", "s", "t", "y", "l", "e", ">",
    "\n", " ", " ", " ", " ", " ", " ", " ", " ", "b", "o", "d", "y", " ", "{", "\n", " ", " ",
    " ", " ", " ", " ", " ", " ", " ", " ", " ", " ", "f", "o", "n", "t", "-", "f", "a", "m",
    "i", "l", "y", ":", " ", "V", "e", "r", "d", "a", "n", "a", ",", " ", "s", "a", "n", "s",
    "-", "s", "e", "r", "i", "f", ";", "\n", " ", " ", " ", " ", " ", " ", " ", " ", " ", " ",
    " ", " ", "f", "o", "n", "t", "-", "s", "i", "z", "e", ":", " ", "s", "m", "a", "l", "l",
    ";", "\n", " ", " ", " ", " ", " ", " ", " ", " ", " ", " ", " ", " ", "m", "a", "r", "g",
    "i", "n", ":", " ", "2", "0", "p", "x", ";", "\n", " ", " ", " ", " ", " ", " ", " ", " ",
    "}", "\n", " ", " ", " ", " ", " ", " ", " ", " ", "a", " ", "{", "\n", " ", " ", " ", " ",
    " ", " ", " ", " ", " ", " ", " ", " ", "c", "o", "l", "o", "r", ":", " ", "b", "l", "u",
    "e", ";", "\n", " ", " ", " ", " ", " ", " ", " ", " ", " ", " ", " ", " ", "t", "e", "x",
    "t", "-", "d", "e", "c", "o", "r", "a", "t", "i", "o", "n", ":", " ", "u", "n", "d", "e",
    "r", "l", "i", "n", "e", ";", "\n", " ", " ", " ", " ", " ", " ", " ", " ", "}", "\n", " ",
    " ", " ", " ", " ", " ", " ", " ", "s", "t", "r", "o", "n", "g", " ", "{", "\n", " ", " ",
    " ", " ", " ", " ", " ", " ", " ", " ", " ", " ", "f", "o", "n", "t", "-", "w", "e", "i",
    "g", "h", "t", ":", " ", "b", "o", "l", "d", ";", "\n", " ", " ", " ", " ", " ", " ", " ",
    " ", "}", "\n", " ", " ", " ", " ", "<", "/", "s", "t", "y", "l", "e", ">", "\n", "<", "/",
    "h", "e", "a", "d", ">", "\n", "<", "b", "o", "d", "y", ">", "\n">>

\* the document shell after {html_content}
ShellTail ==
    <<"\n", "<", "/", "b", "o", "d", "y", ">", "\n", "<", "/", "h", "t", "m", "l", ">">>

\* the f-string that wraps html_content
WrapDocument(s) == ShellHead \o s \o ShellTail

\* lines 112-133: the fragment placed in the document body
HtmlFragment(text) == LineBreaks(LinkSub(BoldSub(PreserveIndent(HtmlEscape(text)))))

\* lines 112-161
RenderHtml(text) == WrapDocument(HtmlFragment(text))

\* the largest number of segments a text is built from
MaxSegs == 3

\* the pieces the texts are built from: markdown tokens, HTML-special
\* characters, a space, a newline and two plain words
TextSegments ==
    { Stars, << "*" >>, << "[", "a", "]" >>, << "[" >>, << "(", "u" >>, << ")" >>,
      << " " >>, << NL >>, << "&" >>, << "<" >>, << ">" >>, << "x", " ", "y" >> }

Texts ==
    { Concat(q) : q \in UNION { [1..n -> TextSegments] : n \in 0..MaxSegs } }

IdleDeadline ==
    /\ today = 0
    /\ current_date = NoInt
    /\ deadline = NoText
    /\ dpc = "idle"

InitRender ==
    /\ email_text \in Texts
    /\ html_content = NoText
    /\ full_html = NoText
    /\ rpc = "escape"
    /\ IdleDeadline
    /\ IdleCli

\* line 114
EscapeStep ==
    /\ rpc = "escape"
    /\ html_content' = HtmlEscape(email_text)
    /\ rpc' = "indent"
    /\ UNCHANGED << email_text, full_html, deadlineVars, cliVars >>

\* lines 117-123
IndentStep ==
    /\ rpc = "indent"
    /\ html_content' = PreserveIndent(html_content)
    /\ rpc' = "bold"
    /\ UNCHANGED << email_text, full_html, deadlineVars, cliVars >>

\* line 127
BoldStep ==
    /\ rpc = "bold"
    /\ html_content' = BoldSub(html_content)
    /\ rpc' = "link"
    /\ UNCHANGED << email_text, full_html, deadlineVars, cliVars >>

\* line 130
LinkStep ==
    /\ rpc = "link"
    /\ html_content' = LinkSub(html_content)
    /\ rpc' = "br"
    /\ UNCHANGED << email_text, full_html, deadlineVars, cliVars >>

\* line 133
LineBreakStep ==
    /\ rpc = "br"
    /\ html_content' = LineBreaks(html_content)
    /\ rpc' = "wrap"
    /\ UNCHANGED << email_text, full_html, deadlineVars, cliVars >>

\* lines 136-161
WrapStep ==
    /\ rpc = "wrap"
    /\ full_html' = WrapDocument(html_content)
    /\ rpc' = "done"
    /\ UNCHANGED << email_text, html_content, deadlineVars, cliVars >>

NextRender ==
    \/ EscapeStep
    \/ IndentStep
    \/ BoldStep
    \/ LinkStep
    \/ LineBreakStep
    \/ WrapStep

SpecRender == InitRender /\ [][NextRender]_vars

\* the number of times the character c occurs in s
CountChar(s, c) == Cardinality({ i \in 1..Len(s) : s[i] = c })

\* the number of positions at which p occurs in s
CountOcc(s, p) == Cardinality(Occurrences(s, p))

\* the entity one character of the input is escaped to
EscapedChar(c) ==
    CASE c = "&" -> AmpEntity
      [] c = "<" -> LtEntity
      [] c = ">" -> GtEntity
      [] c = "\"" -> QuotEntity
      [] c = "'" -> AposEntity
      [] OTHER -> << c >>

\* the number of space characters a line starts with
LeadingSpaceCount(line) ==
    Cardinality({ k \in 1..Len(line) : \A m \in 1..k : line[m] = " " })

RECURSIVE SumOver(_, _)
SumOver(f, n) == IF n = 0 THEN 0 ELSE f[n] + SumOver(f, n - 1)

\* the leading spaces of all lines of a text together
TotalLeadingSpaces(t) ==
    LET ls == SplitLines(t)
    IN  SumOver([i \in 1..Len(ls) |-> LeadingSpaceCount(ls[i])], Len(ls))

RenderEntities == { AmpEntity, LtEntity, GtEntity, QuotEntity, AposEntity, NbspEntity }
RenderTags == { StrongOpen, StrongClose, AnchorOpen, AnchorClose, BrTag }

\* C5: escaping is applied exactly once and before every later step: right after
\* the escape step the text is its character-by-character escape; in the final
\* body every '&' of the text is one '&amp;' (never '&amp;amp;'), every '<' and
\* '>' is one '&lt;' / '&gt;', and the entities and tags the later steps insert
\* are raw: every '&' of the body starts an entity and every '<' starts a tag.
C5_EscapedExactlyOnce ==
    /\ rpc = "indent" =>
          html_content = Concat([i \in 1..Len(email_text) |-> EscapedChar(email_text[i])])
    /\ rpc \in {"wrap", "done"} =>
          /\ CountOcc(html_content, AmpEntity) = CountChar(email_text, "&")
          /\ CountOcc(html_content, << "&" >> \o Tail(AmpEntity) \o Tail(AmpEntity)) = 0
          /\ CountOcc(html_content, LtEntity) = CountChar(email_text, "<")
          /\ CountOcc(html_content, GtEntity) = CountChar(email_text, ">")
          /\ CountOcc(html_content, NbspEntity) = TotalLeadingSpaces(email_text)
          /\ \A i \in 1..Len(html_content) :
                /\ html_content[i] = "&" =>
                      \E e \in RenderEntities : StartsAt(html_content, i, e)
                /\ html_content[i] = "<" =>
                      \E g \in RenderTags : StartsAt(html_content, i, g)
          /\ CountOcc(html_content, StrongOpen) = CountOcc(html_content, StrongClose)
          /\ CountOcc(html_content, AnchorOpen) = CountOcc(html_content, AnchorClose)
          /\ CountOcc(html_content, BrTag) = CountChar(email_text, NL)

\* a bold span around an ampersand has been converted
C5_Witness ==
    /\ rpc = "done"
    /\ email_text = << "*", "*", "&", "*", "*" >>
    /\ html_content = StrongOpen \o AmpEntity \o StrongClose

\* a '**' at i that has a closing '**' on the same line
BoldSpanAt(t, i) ==
    /\ StartsAt(t, i, Stars)
    /\ \E j \in (i + 2)..Len(t) :
          /\ StartsAt(t, j, Stars)
          /\ \A k \in i..j : t[k] # NL

\* a '[label](url)' whose '[' is at i
LinkSpanAt(t, i) ==
    /\ t[i] = "["
    /\ \E j \in (i + 2)..Len(t) : \E k \in (j + 3)..Len(t) :
          /\ t[j] = "]" /\ t[j + 1] = "(" /\ t[k] = ")"
          /\ \A m \in (i + 1)..(j - 1) : t[m] # "]"
          /\ \A m \in (j + 2)..(k - 1) : t[m] # ")"

HasBoldSpan(t) == \E i \in 1..Len(t) : BoldSpanAt(t, i)
HasLinkSpan(t) == \E i \in 1..Len(t) : LinkSpanAt(t, i)

C9_IndentAndLineBreaks ==
    /\ rpc = "bold" =>
          LET before == SplitLines(HtmlEscape(email_text))
              after == SplitLines(html_content)
          IN  /\ Len(after) = Len(before)
              /\ \A i \in 1..Len(before) :
                    LET k == LeadingSpaceCount(before[i])
                    IN  /\ Len(after[i]) = Len(before[i]) + 5 * k
                        /\ \A m \in 1..k :
                              StartsAt(after[i], 6 * (m - 1) + 1, NbspEntity)
                        /\ SubSeq(after[i], 6 * k + 1, Len(after[i]))
                              = SubSeq(before[i], k + 1, Len(before[i]))
    /\ rpc \in {"wrap", "done"} =>
          /\ CountChar(html_content, NL) = CountChar(email_text, NL)
          /\ CountOcc(html_content, BrTag) = CountChar(email_text, NL)
          /\ \A i \in 1..Len(html_content) :
                html_content[i] = NL => i > 4 /\ StartsAt(html_content, i - 4, BrTag)
          /\ Len(SplitLines(html_content)) = Len(SplitLines(email_text))
          /\ CountOcc(html_content, NbspEntity) = TotalLeadingSpaces(email_text)
          /\ CountChar(html_content, " ")
                = CountChar(email_text, " ") - TotalLeadingSpaces(email_text)
                  + CountOcc(html_content, AnchorOpen)

\* an indented line with an interior space and a newline has been converted
C9_Witness ==
    /\ rpc = "done"
    /\ email_text = << " ", "x", " ", "y", NL >>
    /\ html_content = NbspEntity \o << "x", " ", "y" >> \o BrTag \o << NL >>

(***************************************************************************)
(* The two command-line runs: literals, Jira, JSON and the template engine *)
(***************************************************************************)

\* f"FSDS-{...}": the prefix of issue keys, file names and the fsds_number field
KeyPrefix == << "F", "S", "D", "S", "-" >>

\* the sidecar file name after the number
InfoSuffix == << "-", "i", "n", "f", "o", ".", "j", "s", "o", "n" >>

\* the HTML file name after the number
HtmlSuffix ==
    <<"-", "r", "e", "v", "i", "e", "w", "-", "e", "m", "a", "i", "l", ".", "h", "t", "m",
    "l">>

\* template_file of generate_review_email_html
EmailTemplateName ==
    <<"e", "m", "a", "i", "l", "-", "t", "e", "m", "p", "l", "a", "t", "e", ".", "m", "d">>

\* template_file of the approved-email run
ApprovedTemplateName ==
    <<"a", "p", "p", "r", "o", "v", "e", "d", "-", "t", "e", "m", "p", "l", "a", "t", "e", ".",
    "m", "d">>

\* JIRA_SERVER
JiraServer ==
    <<"h", "t", "t", "p", "s", ":", "/", "/", "o", "c", "c", "-", "c", "f", "a", ".", "c", "f",
    "a", ".", "h", "a", "r", "v", "a", "r", "d", ".", "e", "d", "u", "/">>

\* jira.current_user()
JiraUser == << "j", "d", "o", "e" >>

\* the prefix of the handlers' messages
ErrorPrefix == << "E", "r", "r", "o", "r", ":", " " >>

ConnectedAs == << "C", "o", "n", "n", "e", "c", "t", "e", "d", " ", "a", "s", ":", " " >>

ToServer == << " ", "t", "o", " " >>

\* the message of get_jira_issue
ErrorRetrieving ==
    <<"E", "r", "r", "o", "r", " ", "r", "e", "t", "r", "i", "e", "v", "i", "n", "g", " ", "i",
    "s", "s", "u", "e", " ">>

ColonSpace == << ":", " " >>

FsdsNumberLabel == << "F", "S", "D", "S", " ", "N", "u", "m", "b", "e", "r", ":", " " >>

TitleLabel == << "T", "i", "t", "l", "e", ":", " " >>

AuthorLabel == << "A", "u", "t", "h", "o", "r", ":", " " >>

InfoWritten ==
    <<"T", "i", "c", "k", "e", "t", " ", "i", "n", "f", "o", " ", "w", "r", "i", "t", "t", "e",
    "n", " ", "t", "o", ":", " ">>

HtmlWritten ==
    <<"H", "T", "M", "L", " ", "e", "m", "a", "i", "l", " ", "w", "r", "i", "t", "t", "e", "n",
    " ", "t", "o", ":", " ">>

JsonFileQuote == << "J", "S", "O", "N", " ", "f", "i", "l", "e", " ", "'" >>

TemplateFileQuote == << "T", "e", "m", "p", "l", "a", "t", "e", " ", "f", "i", "l", "e", " ", "'" >>

NotFoundQuote == << "'", " ", "n", "o", "t", " ", "f", "o", "u", "n", "d" >>

InvalidJsonIn ==
    <<"I", "n", "v", "a", "l", "i", "d", " ", "J", "S", "O", "N", " ", "i", "n", " ", "'">>

QuoteColon == << "'", ":", " " >>

FixCrash == << "F", "i", "x", " ", "c", "r", "a", "s", "h" >>

JohnSmith == << "J", "o", "h", "n", " ", "S", "m", "i", "t", "h" >>

FixBug == << "F", "i", "x", " ", "b", "u", "g" >>

JaneDoe == << "J", "a", "n", "e", " ", "D", "o", "e" >>

NoReporterTitle == << "O", "r", "p", "h", "a", "n" >>

\* the fallback of get_user_first_name
UserFallback == << "U", "s", "e", "r" >>

\* the first word of git config user.name
GitFirstName == << "T", "o", "m" >>

\* the template of the end-to-end scenario
HelloTemplate ==
    <<"H", "e", "l", "l", "o", " ", "{", "{", "a", "u", "t", "h", "o", "r", "}", "}", ",", " ",
    "r", "e", " ", "{", "{", "f", "s", "d", "s", "_", "n", "u", "m", "b", "e", "r", "}", "}",
    ":", " ", "{", "{", "t", "i", "t", "l", "e", "}", "}">>

HelloExpected ==
    <<"H", "e", "l", "l", "o", " ", "J", "o", "h", "n", " ", "S", "m", "i", "t", "h", ",", " ",
    "r", "e", " ", "F", "S", "D", "S", "-", "1", "8", "9", ":", " ", "F", "i", "x", " ", "c",
    "r", "a", "s", "h">>

TitlePlaceholder == << "{", "{", "t", "i", "t", "l", "e", "}", "}" >>

FsdsPlaceholder == << "{", "{", "f", "s", "d", "s", "_", "n", "u", "m", "b", "e", "r", "}", "}" >>

AuthorPlaceholder == << "{", "{", " ", "a", "u", "t", "h", "o", "r", " ", "}", "}" >>

BogusPlaceholder == << "{", "{", "b", "o", "g", "u", "s", "}", "}" >>

OpenBraces == << "{", "{" >>

CloseBraces == << "}", "}" >>

ReText == << "R", "e", ":", " " >>

MsgConnect ==
    <<"H", "T", "T", "P", "S", "C", "o", "n", "n", "e", "c", "t", "i", "o", "n", "P", "o", "o",
    "l", ":", " ", "M", "a", "x", " ", "r", "e", "t", "r", "i", "e", "s", " ", "e", "x", "c",
    "e", "e", "d", "e", "d">>

MsgNoIssue ==
    <<"I", "s", "s", "u", "e", " ", "D", "o", "e", "s", " ", "N", "o", "t", " ", "E", "x", "i",
    "s", "t">>

MsgNoReporter ==
    <<"'", "N", "o", "n", "e", "T", "y", "p", "e", "'", " ", "o", "b", "j", "e", "c", "t", " ",
    "h", "a", "s", " ", "n", "o", " ", "a", "t", "t", "r", "i", "b", "u", "t", "e", " ", "'",
    "d", "i", "s", "p", "l", "a", "y", "N", "a", "m", "e", "'">>

MsgPermission ==
    <<"[", "E", "r", "r", "n", "o", " ", "1", "3", "]", " ", "P", "e", "r", "m", "i", "s", "s",
    "i", "o", "n", " ", "d", "e", "n", "i", "e", "d">>

MsgSyntax ==
    <<"u", "n", "e", "x", "p", "e", "c", "t", "e", "d", " ", "e", "n", "d", " ", "o", "f", " ",
    "t", "e", "m", "p", "l", "a", "t", "e">>

MsgJson ==
    <<"E", "x", "p", "e", "c", "t", "i", "n", "g", " ", "v", "a", "l", "u", "e", ":", " ", "l",
    "i", "n", "e", " ", "1", " ", "c", "o", "l", "u", "m", "n", " ", "1", " ", "(", "c", "h",
    "a", "r", " ", "0", ")">>

MsgNoOpen ==
    <<"[", "E", "r", "r", "n", "o", " ", "2", "]", " ", "N", "o", " ", "s", "u", "c", "h", " ",
    "f", "i", "l", "e", " ", "o", "r", " ", "d", "i", "r", "e", "c", "t", "o", "r", "y", ":",
    " ", "'", "o", "p", "e", "n", "'">>


\* the issues the Jira server holds: summary and reporter display name
\* (issue 2 has no reporter)
JiraIssues ==
    (2 :> [summary |-> NoReporterTitle, reporter |-> << >>, has_reporter |-> FALSE])
    @@ (7 :> [summary |-> FixBug, reporter |-> JaneDoe, has_reporter |-> TRUE])
    @@ (189 :> [summary |-> FixCrash, reporter |-> JohnSmith, has_reporter |-> TRUE])

\* the ticket numbers given on the command line (argparse type=int accepts them all)
ArgValues == { -1, 0, 2, 7, 189 }

\* str(value), as the f-strings and the template engine apply it
PyToStr(val) == IF val.t = "int" THEN IntToStr(val.n) ELSE val.v

\* json.dump: an int becomes a JSON number, a str a JSON string
JsonDump(d) ==
    [k \in DOMAIN d |->
        IF d[k].t = "int" THEN [j |-> "number", v |-> << >>, n |-> d[k].n]
                          ELSE [j |-> "string", v |-> d[k].v, n |-> 0]]

\* json.load: a JSON number becomes an int, a JSON string a str
JsonLoad(o) ==
    [k \in DOMAIN o |-> IF o[k].j = "number" THEN PyInt(o[k].n) ELSE PyStr(o[k].v)]

TextFile(chars) == [kind |-> "text", text |-> chars, obj |-> EmptyDict]
JsonFile(o) == [kind |-> "json", text |-> << >>, obj |-> o]

\* a sidecar whose content is not JSON
InvalidJson == [kind |-> "invalid", text |-> << >>, obj |-> EmptyDict]

\* the names of the fields, as they are written in a template
FieldChars ==
    [ author |-> << "a", "u", "t", "h", "o", "r" >>,
      title |-> << "t", "i", "t", "l", "e" >>,
      fsds_number |-> << "f", "s", "d", "s", "_", "n", "u", "m", "b", "e", "r" >>,
      review_deadline |-> << "r", "e", "v", "i", "e", "w", "_", "d", "e", "a", "d", "l",
                             "i", "n", "e" >>,
      signature |-> << "s", "i", "g", "n", "a", "t", "u", "r", "e" >> ]

NameChars ==
    { "a", "b", "c", "d", "e", "f", "g", "h", "i", "j", "k", "l", "m", "n", "o", "p", "q",
      "r", "s", "t", "u", "v", "w", "x", "y", "z", "_" }

RECURSIVE RStripSpaces(_)
RStripSpaces(s) ==
    IF Len(s) > 0 /\ s[Len(s)] = " " THEN RStripSpaces(SubSeq(s, 1, Len(s) - 1)) ELSE s

\* the expression between '{{' and '}}' without the surrounding blanks
StripSpaces(s) == RStripSpaces(LStripSpaces(s))

\* the first position >= i at which '}}' starts, or 0
FirstClose(tpl, i) ==
    LET at == { j \in i..Len(tpl) : StartsAt(tpl, j, CloseBraces) }
    IN  IF at = {} THEN 0 ELSE Least(at)

\* the expression of the print statement that opens at i
ExprAt(tpl, i) == StripSpaces(SubSeq(tpl, i + 2, FirstClose(tpl, i + 2) - 1))

IsName(e) == Len(e) > 0 /\ \A k \in 1..Len(e) : e[k] \in NameChars

\* the first position >= i at which '{{' starts, or 0
FirstOpen(tpl, i) ==
    LET at == { j \in i..Len(tpl) : StartsAt(tpl, j, OpenBraces) }
    IN  IF at = {} THEN 0 ELSE Least(at)

RECURSIVE SyntaxOkFrom(_, _)
SyntaxOkFrom(tpl, i) ==
    LET p == FirstOpen(tpl, i)
    IN  IF p = 0 THEN TRUE
        ELSE /\ FirstClose(tpl, p + 2) # 0
             /\ IsName(ExprAt(tpl, p))
             /\ SyntaxOkFrom(tpl, FirstClose(tpl, p + 2) + 2)

\* env.get_template compiles the source: every '{{' needs its '}}' around a name
JinjaSyntaxOk(tpl) == SyntaxOkFrom(tpl, 1)

\* the value a name renders to: str(value), or nothing for a name the context
\* does not hold (the default Undefined of Environment())
Resolve(ctx, name) ==
    LET ks == { k \in DOMAIN ctx : FieldChars[k] = name }
    IN  IF ks = {} THEN << >> ELSE PyToStr(ctx[CHOOSE k \in ks : TRUE])

\* the template source after the lexer dropped a single trailing newline
\* (keep_trailing_newline is off by default)
JinjaSource(tpl) ==
    IF Len(tpl) > 0 /\ tpl[Len(tpl)] = NL THEN SubSeq(tpl, 1, Len(tpl) - 1) ELSE tpl

\* the mutated engine: a print statement is copied to the output as it is
RenderFromVerbatim(tpl, ctx, i) == SubSeq(tpl, i, Len(tpl))

RECURSIVE RenderFrom(_, _, _)
\* tpl[i:] rendered: the text up to the next print statement, its value, the rest
RenderFrom(tpl, ctx, i) ==
    LET p == FirstOpen(tpl, i)
    IN  IF p = 0 THEN SubSeq(tpl, i, Len(tpl))
        ELSE SubSeq(tpl, i, p - 1) \o Resolve(ctx, ExprAt(tpl, p))
                 \o RenderFrom(tpl, ctx, FirstClose(tpl, p + 2) + 2)

\* template.render(ctx) of a template that compiled
JinjaRender(tpl, ctx) == RenderFrom(JinjaSource(tpl), ctx, 1)

\* the largest number of segments a template is built from
MaxTplSegs == 2

TemplateSegments ==
    { TitlePlaceholder, FsdsPlaceholder, AuthorPlaceholder, BogusPlaceholder,
      OpenBraces, ReText, Stars, << NL >> }

\* the template texts: the end-to-end scenario and all short combinations
Templates ==
    { HelloTemplate }
    \cup { Concat(q) : q \in UNION { [1..n -> TemplateSegments] : n \in 0..MaxTplSegs } }

\* a sidecar that holds only title and fsds_number
PartialSidecar(n) ==
    JsonFile([ title |-> [j |-> "string", v |-> FixBug, n |-> 0],
               fsds_number |-> [j |-> "number", v |-> << >>, n |-> n] ])

\* print(text): text may hold several lines
Emit(out, text) == out \o SplitLines(text)

\* except Exception as e: print(f"Error: {e}"); sys.exit(1)
Handled(kind, msg) ==
    /\ raised' = kind
    /\ stdout' = Emit(stdout, ErrorPrefix \o msg)
    /\ exit_status' = 1
    /\ pc' = "exit"

InitCli ==
    /\ prog \in {"review", "approved"}
    /\ pc = IF prog = "review" THEN "r_connect" ELSE "a_check_json"
    /\ fsds_number \in ArgValues
    /\ open_flag \in (IF prog = "review" THEN BOOLEAN ELSE {FALSE})
    /\ \E tpl \in Templates :
          template_files \in
              { f \in [{"email", "approved"} -> {NoFile, TextFile(tpl)}] :
                    prog = "approved" => f["email"] = NoFile }
    /\ sidecar \in (IF prog = "review" THEN {NoFile}
                    ELSE {NoFile, InvalidJson, PartialSidecar(fsds_number)})
    /\ html_file = NoFile
    /\ issue_key = NoText
    /\ json_file = NoText
    /\ output_file = NoText
    /\ info = EmptyDict
    /\ ticket_info = EmptyDict
    /\ approved_email = NoText
    /\ stdout = << >>
    /\ exit_status = NoInt
    /\ raised = "none"
    /\ effects = << >>
    /\ today \in {29}
    /\ current_date = NoInt
    /\ deadline = NoText
    /\ dpc = "idle"
    /\ IdleRender

\* init_jira_connection, lines 17-28 (called at line 68)
ReviewConnect ==
    /\ prog = "review" /\ pc = "r_connect"
    /\ \/ /\ stdout' = Emit(stdout, ConnectedAs \o JiraUser \o ToServer \o JiraServer)
          /\ pc' = "r_issue"
          /\ UNCHANGED << raised, exit_status >>
       \/ Handled("jira_connect", MsgConnect)
    /\ UNCHANGED << prog, fsds_number, open_flag, template_files, sidecar, html_file,
                    issue_key, json_file, output_file, info, ticket_info, approved_email,
                    effects, deadlineVars, renderVars >>

\* get_jira_issue, lines 31-44: a failed lookup prints its own message and
\* calls sys.exit(1); SystemExit is no Exception, so the handler of main() is
\* passed by
ReviewGetIssue ==
    /\ prog = "review" /\ pc = "r_issue"
    /\ issue_key' = KeyPrefix \o IntToStr(fsds_number)
    /\ \/ /\ fsds_number \in DOMAIN JiraIssues
          /\ pc' = "r_extract"
          /\ UNCHANGED << stdout, raised, exit_status >>
       \/ /\ raised' = "jira_lookup"
          /\ stdout' = Emit(stdout, ErrorRetrieving \o issue_key' \o ColonSpace \o MsgNoIssue)
          /\ exit_status' = 1
          /\ pc' = "exit"
    /\ UNCHANGED << prog, fsds_number, open_flag, template_files, sidecar, html_file,
                    json_file, output_file, info, ticket_info, approved_email,
                    effects, deadlineVars, renderVars >>

\* get_title_reporter_from_issue and the dict of get_ticket_info_from_jira,
\* lines 46-54 and 74-80
ReviewExtract ==
    /\ prog = "review" /\ pc = "r_extract"
    /\ LET issue == JiraIssues[fsds_number]
       IN  \/ /\ issue.has_reporter
              /\ info' = [ title |-> PyStr(issue.summary),
                           author |-> PyStr(issue.reporter),
                           fsds_number |-> PyInt(fsds_number) ]
              /\ pc' = "r_enrich"
              /\ UNCHANGED << stdout, raised, exit_status >>
           \/ /\ ~issue.has_reporter
              /\ Handled("no_reporter", MsgNoReporter)
              /\ UNCHANGED info
    /\ UNCHANGED << prog, fsds_number, open_flag, template_files, sidecar, html_file,
                    issue_key, json_file, output_file, ticket_info, approved_email,
                    effects, deadlineVars, renderVars >>

\* lines 225-231: the computed fields are added and the record is shown
ReviewEnrich ==
    /\ prog = "review" /\ pc = "r_enrich"
    /\ current_date' = DeadlineDate(today)
    /\ deadline' = calculate_review_deadline(today)
    /\ \E first_name \in {UserFallback, GitFirstName} :
          info' = info @@ [ review_deadline |-> PyStr(deadline'),
                            signature |-> PyStr(first_name) ]
    /\ stdout' = Emit(Emit(Emit(stdout,
                      FsdsNumberLabel \o PyToStr(info["fsds_number"])),
                      TitleLabel \o PyToStr(info["title"])),
                      AuthorLabel \o PyToStr(info["author"]))
    /\ pc' = "r_sidecar"
    /\ UNCHANGED << prog, fsds_number, open_flag, template_files, sidecar, html_file,
                    issue_key, json_file, output_file, ticket_info, approved_email,
                    exit_status, raised, effects, today, dpc, renderVars >>

\* the mutated step: the sidecar is not written before the e-mail is generated
ReviewWriteSidecarSkipped ==
    /\ prog = "review" /\ pc = "r_sidecar"
    /\ json_file' = KeyPrefix \o PyToStr(info["fsds_number"]) \o InfoSuffix
    /\ pc' = "r_generate"
    /\ UNCHANGED << prog, fsds_number, open_flag, template_files, sidecar, html_file,
                    issue_key, output_file, info, ticket_info, approved_email, stdout,
                    exit_status, raised, effects, deadlineVars, renderVars >>

\* lines 233-237: the info dict is written to the sidecar file
ReviewWriteSidecar ==
    /\ prog = "review" /\ pc = "r_sidecar"
    /\ json_file' = KeyPrefix \o PyToStr(info["fsds_number"]) \o InfoSuffix
    /\ \/ /\ sidecar' = JsonFile(JsonDump(info))
          /\ effects' = Append(effects, "sidecar")
          /\ stdout' = Emit(stdout, InfoWritten \o json_file')
          /\ pc' = "r_generate"
          /\ UNCHANGED << raised, exit_status >>
       \/ /\ Handled("io", MsgPermission)
          /\ UNCHANGED << sidecar, effects >>
    /\ UNCHANGED << prog, fsds_number, open_flag, template_files, html_file,
                    issue_key, output_file, info, ticket_info, approved_email,
                    deadlineVars, renderVars >>

\* generate_review_email_html, lines 83-161 (called at line 240)
ReviewGenerate ==
    /\ prog = "review" /\ pc = "r_generate"
    /\ LET template == template_files["email"]
           template_vars ==
               [ author |-> info["author"],
                 title |-> info["title"],
                 fsds_number |-> PyStr(KeyPrefix \o PyToStr(info["fsds_number"])),
                 review_deadline |-> info["review_deadline"],
                 signature |-> info["signature"] ]
       IN  \/ /\ template.kind = "absent"
              /\ Handled("template_not_found", EmailTemplateName)
              /\ UNCHANGED << email_text, html_content, full_html >>
           \/ /\ template.kind = "text"
              /\ ~JinjaSyntaxOk(template.text)
              /\ Handled("template_syntax", MsgSyntax)
              /\ UNCHANGED << email_text, html_content, full_html >>
           \/ /\ template.kind = "text"
              /\ JinjaSyntaxOk(template.text)
              /\ email_text' = JinjaRender(template.text, template_vars)
              /\ html_content' = HtmlFragment(email_text')
              /\ full_html' = WrapDocument(html_content')
              /\ pc' = "r_html"
              /\ UNCHANGED << stdout, raised, exit_status >>
    /\ UNCHANGED << prog, fsds_number, open_flag, template_files, sidecar, html_file,
                    issue_key, json_file, output_file, info, ticket_info, approved_email,
                    effects, deadlineVars, rpc >>

\* lines 241-244: the document is written to the HTML file
ReviewWriteHtml ==
    /\ prog = "review" /\ pc = "r_html"
    /\ output_file' = KeyPrefix \o PyToStr(info["fsds_number"]) \o HtmlSuffix
    /\ \/ /\ html_file' = TextFile(full_html)
          /\ effects' = Append(effects, "html")
          /\ stdout' = Emit(stdout, HtmlWritten \o output_file')
          /\ pc' = IF open_flag THEN "r_open" ELSE "exit"
          /\ exit_status' = IF open_flag THEN exit_status ELSE 0
          /\ UNCHANGED raised
       \/ /\ Handled("io", MsgPermission)
          /\ UNCHANGED << html_file, effects >>
    /\ UNCHANGED << prog, fsds_number, open_flag, template_files, sidecar,
                    issue_key, json_file, info, ticket_info, approved_email,
                    deadlineVars, renderVars >>

\* lines 247-248: subprocess.run(['open', output_file])
ReviewOpen ==
    /\ prog = "review" /\ pc = "r_open"
    /\ \/ /\ effects' = Append(effects, "open")
          /\ exit_status' = 0
          /\ pc' = "exit"
          /\ UNCHANGED << stdout, raised >>
       \/ /\ Handled("open", MsgNoOpen)
          /\ UNCHANGED effects
    /\ UNCHANGED << prog, fsds_number, open_flag, template_files, sidecar, html_file,
                    issue_key, json_file, output_file, info, ticket_info, approved_email,
                    deadlineVars, renderVars >>

\* lines 27-34 of write_approved_email.py: the sidecar must exist
ApprovedCheckJson ==
    /\ prog = "approved" /\ pc = "a_check_json"
    /\ json_file' = KeyPrefix \o IntToStr(fsds_number) \o InfoSuffix
    /\ \/ /\ sidecar.kind = "absent"
          /\ raised' = "json_missing"
          /\ stdout' = Emit(stdout, ErrorPrefix \o JsonFileQuote \o json_file' \o NotFoundQuote)
          /\ exit_status' = 1
          /\ pc' = "exit"
       \/ /\ sidecar.kind # "absent"
          /\ pc' = "a_check_template"
          /\ UNCHANGED << stdout, raised, exit_status >>
    /\ UNCHANGED << prog, fsds_number, open_flag, template_files, sidecar, html_file,
                    issue_key, output_file, info, ticket_info, approved_email,
                    effects, deadlineVars, renderVars >>

\* lines 36-38 of write_approved_email.py: the template must exist
ApprovedCheckTemplate ==
    /\ prog = "approved" /\ pc = "a_check_template"
    /\ \/ /\ template_files["approved"].kind = "absent"
          /\ raised' = "template_not_found"
          /\ stdout' = Emit(stdout, ErrorPrefix \o TemplateFileQuote \o ApprovedTemplateName
                                        \o NotFoundQuote)
          /\ exit_status' = 1
          /\ pc' = "exit"
       \/ /\ template_files["approved"].kind # "absent"
          /\ pc' = "a_load"
          /\ UNCHANGED << stdout, raised, exit_status >>
    /\ UNCHANGED << prog, fsds_number, open_flag, template_files, sidecar, html_file,
                    issue_key, json_file, output_file, info, ticket_info, approved_email,
                    effects, deadlineVars, renderVars >>

\* lines 41-43 and 55-57 of write_approved_email.py: json.load of the sidecar
ApprovedLoad ==
    /\ prog = "approved" /\ pc = "a_load"
    /\ \/ /\ sidecar.kind = "invalid"
          /\ raised' = "json_decode"
          /\ stdout' = Emit(stdout, ErrorPrefix \o InvalidJsonIn \o json_file \o QuoteColon
                                        \o MsgJson)
          /\ exit_status' = 1
          /\ pc' = "exit"
          /\ UNCHANGED ticket_info
       \/ /\ sidecar.kind = "json"
          /\ ticket_info' = JsonLoad(sidecar.obj)
          /\ pc' = "a_render"
          /\ UNCHANGED << stdout, raised, exit_status >>
    /\ UNCHANGED << prog, fsds_number, open_flag, template_files, sidecar, html_file,
                    issue_key, json_file, output_file, info, approved_email,
                    effects, deadlineVars, renderVars >>

\* lines 45-53 and 58-60 of write_approved_email.py: the template is rendered
\* with the loaded dict itself and printed
ApprovedRender ==
    /\ prog = "approved" /\ pc = "a_render"
    /\ LET template == template_files["approved"]
       IN  \/ /\ ~JinjaSyntaxOk(template.text)
              /\ Handled("template_syntax", MsgSyntax)
              /\ UNCHANGED approved_email
           \/ /\ JinjaSyntaxOk(template.text)
              /\ approved_email' = JinjaRender(template.text, ticket_info)
              /\ stdout' = Emit(stdout, approved_email')
              /\ exit_status' = 0
              /\ pc' = "exit"
              /\ UNCHANGED raised
    /\ UNCHANGED << prog, fsds_number, open_flag, template_files, sidecar, html_file,
                    issue_key, json_file, output_file, info, ticket_info,
                    effects, deadlineVars, renderVars >>

\* after a review run has ended, the approved-email script is run for the same
\* ticket in the same directory: a new process with the files as they were left
StartApproved ==
    /\ prog = "review" /\ pc = "exit"
    /\ prog' = "approved"
    /\ pc' = "a_check_json"
    /\ open_flag' = FALSE
    /\ issue_key' = NoText
    /\ json_file' = NoText
    /\ output_file' = NoText
    /\ info' = EmptyDict
    /\ stdout' = << >>
    /\ exit_status' = NoInt
    /\ raised' = "none"
    /\ current_date' = NoInt
    /\ deadline' = NoText
    /\ email_text' = NoText
    /\ html_content' = NoText
    /\ full_html' = NoText
    /\ UNCHANGED << fsds_number, template_files, sidecar, html_file, ticket_info,
                    approved_email, effects, today, dpc, rpc >>

Next ==
    \/ ReviewConnect
    \/ ReviewGetIssue
    \/ ReviewExtract
    \/ ReviewEnrich
    \/ ReviewWriteSidecar
    \/ ReviewGenerate
    \/ ReviewWriteHtml
    \/ ReviewOpen
    \/ ApprovedCheckJson
    \/ ApprovedCheckTemplate
    \/ ApprovedLoad
    \/ ApprovedRender
    \/ StartApproved

Spec == InitCli /\ [][Next]_vars

\* the five fields generate_review_email_html passes to the template
FieldNames == { "author", "title", "fsds_number", "review_deadline", "signature" }

\* the placeholders the templates are built from
PlaceholderSegments ==
    { TitlePlaceholder, FsdsPlaceholder, AuthorPlaceholder, BogusPlaceholder }

\* the name inside a placeholder has a value in a mapping with these keys
HasValue(keys, placeholder) == \E k \in keys : FieldChars[k] = ExprAt(placeholder, 1)

Written(what) == \E i \in 1..Len(effects) : effects[i] = what

\* C2: wherever a template is filled (the review run, and the approved run that
\* re-loads the sidecar the review run wrote), {{fsds_number}} becomes
\* "FSDS-<identifier>", and the scenario template with ticket 189 yields
\* "Hello John Smith, re FSDS-189: Fix crash".
C2_FsdsNumberPrefixed ==
    /\ email_text # NoText =>
          LET tpl == template_files["email"].text
          IN  /\ Contains(tpl, FsdsPlaceholder) =>
                    Contains(email_text, KeyPrefix \o IntToStr(fsds_number))
              /\ tpl = HelloTemplate /\ fsds_number = 189 => email_text = HelloExpected
    /\ approved_email # NoText /\ Written("sidecar") =>
          LET tpl == template_files["approved"].text
          IN  /\ Contains(tpl, FsdsPlaceholder) =>
                    Contains(approved_email, KeyPrefix \o IntToStr(fsds_number))
              /\ tpl = HelloTemplate /\ fsds_number = 189 => approved_email = HelloExpected

\* the lines of the output that start with "Error: "
ErrorLines == { i \in 1..Len(stdout) : StartsWith(stdout[i], ErrorPrefix) }

\* C3: every run that failed has printed exactly one line starting with
\* "Error: " and has exit status 1; a run that did not fail has exit status 0.
C3_ErrorLineAndStatus ==
    pc = "exit" =>
        /\ raised # "none" => exit_status = 1 /\ Cardinality(ErrorLines) = 1
        /\ raised = "none" => exit_status = 0

\* C4: a placeholder whose name has no value in the mapping given to the
\* template is still in the output when output is produced (the other allowed
\* outcome, a missing-field error, produces no output): it is never replaced
\* by nothing.
C4_NoSilentBlank ==
    /\ email_text # NoText =>
          \A ph \in PlaceholderSegments :
              Contains(template_files["email"].text, ph) /\ ~HasValue(FieldNames, ph)
                  => Contains(email_text, ph)
    /\ approved_email # NoText =>
          \A ph \in PlaceholderSegments :
              Contains(template_files["approved"].text, ph)
                      /\ ~HasValue(DOMAIN ticket_info, ph)
                  => Contains(approved_email, ph)

\* C8: whenever a run has built an issue key, a sidecar file name or a ticket
\* record, or handed a record to the template, the ticket number is positive.
C8_IdentifierPositive ==
    /\ issue_key # NoText => fsds_number > 0
    /\ json_file # NoText => fsds_number > 0
    /\ "fsds_number" \in DOMAIN info => info["fsds_number"].n > 0
    /\ "fsds_number" \in DOMAIN ticket_info => ticket_info["fsds_number"].n > 0

\* the placeholder tokens of the recognized fields, written without blanks
RecognizedTokens == { OpenBraces \o FieldChars[k] \o CloseBraces : k \in FieldNames }

\* C7: when the template holds {{title}} once, the filled and rendered document
\* holds the ticket's title exactly once and no placeholder token of a
\* recognized field.
C7_TitleOnceNoPlaceholder ==
    email_text # NoText /\ CountOcc(template_files["email"].text, TitlePlaceholder) = 1 =>
        /\ CountOcc(email_text, info["title"].v) = 1
        /\ CountOcc(full_html, info["title"].v) = 1
        /\ \A tok \in RecognizedTokens \cup { AuthorPlaceholder } :
              ~Contains(email_text, tok) /\ ~Contains(full_html, tok)

\* the review run for ticket 7 has written the document of "Re: {{title}}"
C7_Witness ==
    /\ prog = "review" /\ pc = "exit" /\ exit_status = 0
    /\ template_files["email"].text = ReText \o TitlePlaceholder
    /\ email_text = ReText \o FixBug
    /\ html_file.text = WrapDocument(ReText \o FixBug)

\* the sidecar holds the five fields of the ticket of this run
SidecarComplete ==
    /\ sidecar.kind = "json"
    /\ DOMAIN sidecar.obj = FieldNames
    /\ sidecar.obj["fsds_number"].j = "number"
    /\ sidecar.obj["fsds_number"].n = fsds_number

\* C10: the review run fetches the ticket, adds the computed fields, writes the
\* sidecar, fills and renders the template, writes the HTML file and then opens
\* it, in this order: the HTML file is only written once the complete sidecar
\* of the same ticket has been written, and a run that fails on the template
\* ends with status 1, the sidecar written and no HTML file.
C10_SidecarBeforeHtml ==
    /\ Written("html") =>
          /\ Len(effects) >= 2 /\ effects[1] = "sidecar" /\ effects[2] = "html"
          /\ SidecarComplete
          /\ html_file.kind = "text"
    /\ html_file.kind # "absent" => Written("html")
    /\ Written("open") => effects = << "sidecar", "html", "open" >>
    /\ prog = "review" =>
          /\ pc \in {"r_connect", "r_issue", "r_extract", "r_enrich"} => effects = << >>
          /\ pc = "r_sidecar" => DOMAIN info = FieldNames /\ effects = << >>
          /\ pc = "r_generate" =>
                DOMAIN info = FieldNames /\ effects = << "sidecar" >> /\ SidecarComplete
          /\ pc = "r_html" => effects = << "sidecar" >> /\ full_html # NoText
          /\ pc = "r_open" => effects = << "sidecar", "html" >>
          /\ pc = "exit" /\ raised \in {"template_not_found", "template_syntax"} =>
                /\ exit_status = 1
                /\ effects = << "sidecar" >>
                /\ SidecarComplete
                /\ html_file.kind = "absent"

\* a review run has ended on a missing template with the sidecar written
C10_Witness ==
    /\ prog = "review" /\ pc = "exit" /\ raised = "template_not_found"
    /\ exit_status = 1
    /\ effects = << "sidecar" >>
    /\ SidecarComplete
    /\ html_file.kind = "absent"

====
